---- MODULE Spec2Model ----
(***************************************************************************)
(* Model of fuocore.engine: the mpg123-backed Player (commands, the stdout *)
(* capture thread, the signal queue and its run() loop) and the Playlist   *)
(* class (cursor, playback mode, next/previous).                           *)
(*                                                                         *)
(* Spec         : Player with every command, every parsed line and every   *)
(*                dispatched signal as one step.                           *)
(* PlaylistSpec : the Playlist class on its own.                           *)
(* ConcSpec     : destroy(), _play() and shutdown() statement by           *)
(*                statement, run on the caller's thread and on the run()   *)
(*                thread at once, with the subprocesses and their capture  *)
(*                threads.                                                 *)
(* Python lists are modelled as sequences; a Python index i names element  *)
(* i + 1 of the sequence.                                                  *)
(***************************************************************************)
EXTENDS Integers, Sequences, FiniteSets, TLC

VARIABLES
    \* ---- Player (engine.py 246-280)
    songs,              \* self._songs
    current_song,       \* self._current_song
    playback_mode,      \* self._playback_mode
    state,              \* self._state
    last_state,         \* self._last_state
    position,           \* self._position
    duration,           \* self._duration
    handler,            \* self._handler: "None" or "Popen"
    stdout_cap_thread,  \* self._stdout_cap_thread and how far its target has run
    signal_queue,       \* self._signal_queue
    ready_to_exit_flag, \* self._ready_to_exit_flag
    run,                \* where the thread executing Player.run() is
    last,               \* history: what the most recent Player step did
    \* ---- Playlist (engine.py 36-132)
    pl_songs,           \* Playlist._songs
    current_index,      \* Playlist._current_index: <<>> for None, <<i>> for i
    last_index,         \* Playlist._last_index: <<>> for None, <<i>> for i
    last_song,          \* Playlist._last_song (None until the setter runs)
    pl_playback_mode,   \* Playlist._playback_mode
    pl_last,            \* history: what the most recent Playlist call did
    \* ---- Player's subprocess handle under concurrent calls (engine.py 282-362)
    c_handler,          \* self._handler: 0 for None, else the process
    c_thread,           \* self._stdout_cap_thread: 0 for None, else the thread
    nproc,              \* processes spawned so far (process k has capture thread k)
    procs,              \* per process: alive or exited, pipe ends, commands received
    caps,               \* per capture thread: where it is in _capture_stdout
    rd,                 \* per capture thread: the process whose stdout it reads
    pc,                 \* per calling thread: the statement it is at
    cmd,                \* per calling thread: the command it is running
    target,             \* per calling thread: the thread it joins or process it waits on
    c_queue,            \* self._signal_queue
    c_flag,             \* self._ready_to_exit_flag
    budget              \* commands the model still lets begin

\* ------------------------------------------------------------------ bounds
MaxTracks == 2
MaxQueue == 2
MaxPlaylist == 3         \* tracks a Playlist is built from
MaxCmds == 3             \* commands begun in a concurrent run
MaxBack == 2            \* previous() is not called with the cursor below -MaxBack

\* --------------------------------------------------------------- constants
None == 0
Tracks == 1..MaxTracks
State == {"stopped", "paused", "playing"}
PlaybackMode == {"one_loop", "sequential", "loop", "random"}
Signals == {"position_changed", "state_changed", "finished", "ready_to_exit"}

\* ------------------------------------------------------- Python list helpers
Range(s) == {s[i] : i \in 1..Len(s)}
Contains(s, x) == \E i \in 1..Len(s) : s[i] = x
\* list.index: Python position of the first element equal to x
Index(s, x) == (CHOOSE i \in 1..Len(s) : s[i] = x /\ \A j \in 1..(i - 1) : s[j] # x) - 1
\* list.insert(i, x): i is clamped to the list as Python does
Insert(s, i, x) ==
    LET k == IF i < 0 THEN (IF Len(s) + i < 0 THEN 0 ELSE Len(s) + i)
             ELSE IF i > Len(s) THEN Len(s) ELSE i
    IN  SubSeq(s, 1, k) \o <<x>> \o SubSeq(s, k + 1, Len(s))
\* list.remove(x): drops the first element equal to x
Remove(s, x) ==
    LET k == Index(s, x) + 1
    IN  SubSeq(s, 1, k - 1) \o SubSeq(s, k + 1, Len(s))
NoDup(s) == \A i, j \in 1..Len(s) : s[i] = s[j] => i = j
SongLists == {s \in UNION {[1..n -> Tracks] : n \in 0..MaxTracks} : NoDup(s)}

\* --------------------------------------------------- mpg123 status lines
\* A line is its flag followed by the space-separated fields after it.
Numeric == {"0", "1", "2"}
Num(f) == CASE f = "0" -> 0 [] f = "1" -> 1 [] f = "2" -> 2
Lines ==
    {<<"@F", fc, "0", "1", "2">> : fc \in {"0", "1"}}
    \cup {<<"@F", "0", "0", "1">>, <<"@F", "x", "0", "1", "2">>}
    \cup {<<"@P", "0">>, <<"@P", "1">>, <<"@P", "2">>, <<"@P">>}
    \cup {<<"@E", "msg">>, <<"@R", "MPG123">>}

\* ------------------------------------------------------------- history
\* op: the step; arg: the line read (capture thread steps only); pre_state:
\* _state before the step; writes: what the step wrote to the subprocess's
\* stdin; spawned: whether it started a subprocess; posted: what it put on
\* the queue; ret: what the call returned ("raise" for an exception);
\* loaded: the song of its 'L' command; pre_songs, pre_current: _songs and
\* _current_song before a step that asks for the next or previous song.
GotOps == {"play_next", "play_last", "emit_finished"}
Last(op, arg, writes, spawned, posted, ret, loaded, exc) ==
    [op |-> op, arg |-> IF op = "readline" THEN arg ELSE None, pre_state |-> state,
     writes |-> writes, spawned |-> spawned, posted |-> posted, ret |-> ret,
     loaded |-> loaded, exc |-> exc,
     pre_songs |-> IF op \in GotOps THEN songs ELSE <<>>,
     pre_current |-> IF op \in GotOps THEN current_song ELSE None]

player_vars == <<songs, current_song, playback_mode, state, last_state, position,
                 duration, handler, stdout_cap_thread, signal_queue,
                 ready_to_exit_flag, run, last>>
playlist_vars == <<pl_songs, current_index, last_index, last_song,
                   pl_playback_mode, pl_last>>
conc_vars == <<c_handler, c_thread, nproc, procs, caps, rd, pc, cmd, target,
               c_queue, c_flag, budget>>
vars == <<player_vars, playlist_vars, conc_vars>>

\* Player.__init__ but for _playback_mode
PlayerFields ==
    /\ songs = <<>>
    /\ current_song = None
    /\ state = "stopped"
    /\ last_state = "stopped"
    /\ position = 0
    /\ duration = 0
    /\ handler = "None"
    /\ stdout_cap_thread = "None"
    /\ signal_queue = <<>>
    /\ ready_to_exit_flag = FALSE
    /\ run = "running"
    /\ last = Last("init", None, <<>>, FALSE, <<>>, "None", None, FALSE)

\* Playlist.__init__(songs, playback_mode)
NoIndex == <<>>
PlLast(op, arg, emitted, exc, rounds) ==
    [op |-> op, arg |-> arg, emitted |-> emitted, exc |-> exc,
     pre_index |-> current_index, pre_songs |-> pl_songs, rounds |-> rounds]
PlaylistFields(list, mode) ==
    /\ pl_songs = list
    /\ current_index = NoIndex
    /\ last_index = NoIndex
    /\ last_song = None
    /\ pl_playback_mode = mode
    /\ pl_last = PlLast("init", None, <<>>, "", <<>>)

\* No process, no capture thread, both calling threads between commands
Threads == {"main", "run"}
MaxPid == MaxCmds + 1
Pids == 1..MaxPid
Unborn == [st |-> "unborn", stdin_closed |-> FALSE, stdout_closed |-> FALSE,
           quit |-> FALSE, loaded |-> FALSE, out |-> FALSE]
HandleFields(n) ==
    /\ c_handler = 0
    /\ c_thread = 0
    /\ nproc = 0
    /\ procs = [p \in Pids |-> Unborn]
    /\ caps = [p \in Pids |-> "none"]
    /\ rd = [p \in Pids |-> 0]
    /\ pc = [t \in Threads |-> "idle"]
    /\ cmd = [t \in Threads |-> "none"]
    /\ target = [t \in Threads |-> 0]
    /\ c_queue = <<>>
    /\ c_flag = FALSE
    /\ budget = n

\* Player() with run() started. _playback_mode has no setter in the class: it
\* is a plain attribute that the branches of get_next_song and
\* get_previous_song read, so its value is chosen once, here.
Init ==
    /\ PlayerFields
    /\ playback_mode \in PlaybackMode
    /\ PlaylistFields(<<>>, "loop")
    /\ HandleFields(0)

\* ------------------------------------------------------------ set_state
set_state_forgets(s) ==
    [state |-> s,
     posted |-> IF last_state # s THEN <<"state_changed">> ELSE <<>>,
     last_state |-> last_state]
set_state(s) ==
    [state |-> s,
     posted |-> IF last_state # s THEN <<"state_changed">> ELSE <<>>,
     last_state |-> IF last_state # s THEN s ELSE last_state]


\* ------------------------------------------------------ _capture_stdout
\* What one pass of the loop body does with one line read from stdout.
\* thread is "running" while the loop goes on, "finished" after the break,
\* "died" when the body raises (only readline's ValueError is caught).
Unchanged(thread) ==
    [position |-> position, duration |-> duration,
     st |-> [state |-> state, posted |-> <<>>, last_state |-> last_state],
     posted |-> <<>>, thread |-> thread]
capture_F_every_frame(fields) ==
    IF Len(fields) # 4 THEN Unchanged("died")
    ELSE IF fields[3] \notin Numeric THEN Unchanged("died")
    ELSE IF fields[1] \notin Numeric \/ fields[4] \notin Numeric
         THEN [Unchanged("died") EXCEPT !.position = Num(fields[3])]
    ELSE LET st == set_state("playing")
         IN  [position |-> Num(fields[3]),
              duration |-> Num(fields[4]),
              st |-> st,
              posted |-> st.posted \o <<"position_changed">>,
              thread |-> "running"]
capture_F(fields) ==
    IF Len(fields) # 4 THEN Unchanged("died")
    ELSE IF fields[3] \notin Numeric THEN Unchanged("died")
    ELSE IF fields[1] \notin Numeric
            \/ (Num(fields[1]) = 0 /\ fields[4] \notin Numeric)
         THEN [Unchanged("died") EXCEPT !.position = Num(fields[3])]
    ELSE LET st == set_state("playing")
         IN  [position |-> Num(fields[3]),
              duration |-> IF Num(fields[1]) = 0 THEN Num(fields[4]) ELSE duration,
              st |-> st,
              posted |-> st.posted \o <<"position_changed">>,
              thread |-> "running"]
capture_P_reads_on(fields) ==
    LET a == IF fields = <<>> THEN "" ELSE fields[1]
    IN  IF a = "0"
        THEN LET st == set_state("stopped")
             IN  [position |-> 0, duration |-> 0, st |-> st,
                  posted |-> st.posted \o <<"finished">>, thread |-> "running"]
        ELSE LET st == set_state(IF a = "1" THEN "paused" ELSE "playing")
             IN  [position |-> position, duration |-> duration, st |-> st,
                  posted |-> st.posted, thread |-> "running"]
capture_P(fields) ==
    LET a == IF fields = <<>> THEN "" ELSE fields[1]
    IN  IF a = "0"
        THEN LET st == set_state("stopped")
             IN  [position |-> 0, duration |-> 0, st |-> st,
                  posted |-> st.posted \o <<"finished">>, thread |-> "finished"]
        ELSE LET st == set_state(IF a = "1" THEN "paused" ELSE "playing")
             IN  [position |-> position, duration |-> duration, st |-> st,
                  posted |-> st.posted, thread |-> "running"]
capture_stdout(line) ==
    CASE line[1] = "@F" -> capture_F(Tail(line))
      [] line[1] = "@P" -> capture_P(Tail(line))
      [] OTHER -> Unchanged("running")

\* The capture thread reads and handles one line of its subprocess.
ReadLine ==
    \E line \in Lines :
        /\ handler = "Popen"
        /\ stdout_cap_thread = "running"
        /\ LET r == capture_stdout(line)
           IN  /\ Len(signal_queue) + Len(r.posted) <= MaxQueue
               /\ position' = r.position
               /\ duration' = r.duration
               /\ state' = r.st.state
               /\ last_state' = r.st.last_state
               /\ signal_queue' = signal_queue \o r.posted
               /\ stdout_cap_thread' = r.thread
               /\ last' = Last("readline", line, <<>>, FALSE, r.posted, "None",
                               None, r.thread = "died")
        /\ UNCHANGED <<songs, current_song, playback_mode, handler,
                       ready_to_exit_flag, run, playlist_vars, conc_vars>>

\* ------------------------------------------------------------- commands
\* destroy(): 'q' is written, the pipes are closed, the capture thread is
\* joined and the process reaped; nothing happens without a handler.
DestroyWrites == IF handler # "None" THEN <<"q">> ELSE <<>>

\* Player._get_song / add_song on a list
add_song(s, song) == IF Contains(s, song) THEN s ELSE Append(s, song)

\* _play + play_song: destroy, spawn through the handler property, write
\* 'L url', record the song and append it when its identifier is new.
PlaySongFrom(base, song, op, arg) ==
    /\ handler' = "Popen"
    /\ stdout_cap_thread' = "running"
    /\ current_song' = song
    /\ songs' = add_song(base, song)
    /\ last' = Last(op, arg, DestroyWrites \o <<"L">>, TRUE, <<>>, "None", song, FALSE)

Silent == UNCHANGED <<state, last_state, position, duration>>

play_song ==
    \E song \in Tracks :
        /\ PlaySongFrom(songs, song, "play_song", song)
        /\ Silent
        /\ UNCHANGED <<playback_mode, signal_queue, ready_to_exit_flag, run, playlist_vars, conc_vars>>

play_songs ==
    \E list \in SongLists :
        /\ IF list # <<>>
           THEN PlaySongFrom(list, list[1], "play_songs", list)
           ELSE /\ songs' = list
                /\ last' = Last("play_songs", list, <<>>, FALSE, <<>>, "None", None, FALSE)
                /\ UNCHANGED <<handler, stdout_cap_thread, current_song>>
        /\ Silent
        /\ UNCHANGED <<playback_mode, signal_queue, ready_to_exit_flag, run, playlist_vars, conc_vars>>

\* toggle(): writes 'p' to self.handler.stdin; the property spawns a process
\* (and its capture thread) when there is none.
Toggled(op, ret) ==
    /\ handler' = "Popen"
    /\ stdout_cap_thread' = IF handler = "None" THEN "running" ELSE stdout_cap_thread
    /\ last' = Last(op, None, <<"p">>, handler = "None", <<>>, ret, None, FALSE)

NoOp(op, ret) ==
    /\ last' = Last(op, None, <<>>, FALSE, <<>>, ret, None, FALSE)
    /\ UNCHANGED <<handler, stdout_cap_thread>>

toggle ==
    /\ Toggled("toggle", "None")
    /\ Silent
    /\ UNCHANGED <<songs, current_song, playback_mode, signal_queue,
                   ready_to_exit_flag, run, playlist_vars, conc_vars>>

play_any_state ==
    /\ IF state # "playing" THEN Toggled("play", "True") ELSE NoOp("play", "False")
    /\ Silent
    /\ UNCHANGED <<songs, current_song, playback_mode, signal_queue,
                   ready_to_exit_flag, run, playlist_vars, conc_vars>>
play ==
    /\ IF state = "paused" THEN Toggled("play", "True") ELSE NoOp("play", "False")
    /\ Silent
    /\ UNCHANGED <<songs, current_song, playback_mode, signal_queue,
                   ready_to_exit_flag, run, playlist_vars, conc_vars>>

pause_optimistic ==
    /\ IF state = "playing" THEN Toggled("pause", "True") ELSE NoOp("pause", "False")
    /\ state' = IF state = "playing" THEN "paused" ELSE state
    /\ UNCHANGED <<last_state, position, duration>>
    /\ UNCHANGED <<songs, current_song, playback_mode, signal_queue,
                   ready_to_exit_flag, run, playlist_vars, conc_vars>>
pause ==
    /\ IF state = "playing" THEN Toggled("pause", "True") ELSE NoOp("pause", "False")
    /\ Silent
    /\ UNCHANGED <<songs, current_song, playback_mode, signal_queue,
                   ready_to_exit_flag, run, playlist_vars, conc_vars>>

Destroyed(op) ==
    /\ handler' = "None"
    /\ stdout_cap_thread' = "None"
    /\ last' = Last(op, None, DestroyWrites, FALSE,
                    IF op = "shutdown" THEN <<"ready_to_exit">> ELSE <<>>,
                    "None", None, FALSE)

stop ==
    /\ Destroyed("stop")
    /\ Silent
    /\ UNCHANGED <<songs, current_song, playback_mode, signal_queue,
                   ready_to_exit_flag, run, playlist_vars, conc_vars>>

shutdown ==
    /\ Len(signal_queue) < MaxQueue
    /\ Destroyed("shutdown")
    /\ signal_queue' = Append(signal_queue, "ready_to_exit")
    /\ Silent
    /\ UNCHANGED <<songs, current_song, playback_mode, ready_to_exit_flag, run, playlist_vars, conc_vars>>


\* Player.add_song(song, insert) called directly
AddSong ==
    \E song \in Tracks, insert \in BOOLEAN :
        /\ IF Contains(songs, song)
           THEN /\ songs' = songs
                /\ last' = Last("add_song", song, <<>>, FALSE, <<>>, "False", None, FALSE)
           ELSE IF insert /\ current_song # None /\ ~Contains(songs, current_song)
           THEN \* self._songs.index(self._current_song) raises ValueError
                /\ songs' = songs
                /\ last' = Last("add_song", song, <<>>, FALSE, <<>>, "raise", None, TRUE)
           ELSE /\ songs' = IF ~insert THEN Append(songs, song)
                            ELSE IF current_song = None THEN Insert(songs, 0, song)
                            ELSE Insert(songs, Index(songs, current_song) + 1, song)
                /\ last' = Last("add_song", song, <<>>, FALSE, <<>>, "True", None, FALSE)
        /\ Silent
        /\ UNCHANGED <<current_song, playback_mode, handler, stdout_cap_thread,
                       signal_queue, ready_to_exit_flag, run, playlist_vars, conc_vars>>

\* Player.remove_song(song)
RemoveSong ==
    \E song \in Tracks :
        /\ IF Contains(songs, song)
           THEN /\ songs' = Remove(songs, song)
                /\ last' = Last("remove_song", song, <<>>, FALSE, <<>>, "True", None, FALSE)
           ELSE /\ songs' = songs
                /\ last' = Last("remove_song", song, <<>>, FALSE, <<>>, "None", None, FALSE)
        /\ Silent
        /\ UNCHANGED <<current_song, playback_mode, handler, stdout_cap_thread,
                       signal_queue, ready_to_exit_flag, run, playlist_vars, conc_vars>>

\* ------------------------------------------- get_next_song / get_previous_song
\* The set of outcomes of one call: kind "song" (a member of the list or the
\* current song), "None", "int" (a bare index is returned) or "raise".
Got(kind, song) == [kind |-> kind, song |-> song]
GotSong(song) == IF song = None THEN Got("None", None) ELSE Got("song", song)

get_next_song ==
    IF songs = <<>> THEN {Got("None", None)}
    ELSE CASE playback_mode = "one_loop" -> {GotSong(current_song)}
           [] playback_mode = "loop" ->
                IF current_song = songs[Len(songs)] THEN {GotSong(songs[1])}
                ELSE IF ~Contains(songs, current_song)
                     THEN {Got("raise", None)}   \* list.index: ValueError
                     ELSE {GotSong(songs[(Index(songs, current_song) + 1) + 1])}
           [] playback_mode = "sequential" ->
                \* self.signal_playlist_finished is not an attribute of Player:
                \* AttributeError before anything is put on the queue
                {Got("raise", None)}
           [] OTHER -> {GotSong(s) : s \in Range(songs)}

get_previous_song ==
    IF songs = <<>> THEN {Got("None", None)}
    ELSE CASE playback_mode = "one_loop" -> {GotSong(current_song)}
           [] playback_mode = "loop" ->
                IF ~Contains(songs, current_song)
                THEN {Got("raise", None)}        \* list.index: ValueError
                ELSE IF Index(songs, current_song) = 0
                     THEN {GotSong(songs[Len(songs)])}
                     ELSE {Got("int", Index(songs, current_song) - 1)}
           [] playback_mode = "sequential" -> {Got("None", None)}
           [] OTHER -> {GotSong(s) : s \in Range(songs)}

\* play_next / play_last: play the song that was got, if any. An "int" has
\* no url attribute, so play_song raises before _play is entered.
PlayGot(g, op) ==
    CASE g.kind = "song" -> PlaySongFrom(songs, g.song, op, None)
      [] g.kind = "None" ->
            /\ last' = Last(op, None, <<>>, FALSE, <<>>, "None", None, FALSE)
            /\ UNCHANGED <<songs, current_song, handler, stdout_cap_thread>>
      [] OTHER ->
            /\ last' = Last(op, None, <<>>, FALSE, <<>>, "raise", None, TRUE)
            /\ UNCHANGED <<songs, current_song, handler, stdout_cap_thread>>

play_next ==
    \E g \in get_next_song :
        /\ PlayGot(g, "play_next")
        /\ Silent
        /\ UNCHANGED <<playback_mode, signal_queue, ready_to_exit_flag, run, playlist_vars, conc_vars>>

play_last ==
    \E g \in get_previous_song :
        /\ PlayGot(g, "play_last")
        /\ Silent
        /\ UNCHANGED <<playback_mode, signal_queue, ready_to_exit_flag, run, playlist_vars, conc_vars>>

\* ------------------------------------------------------------ Player.run
\* One pass of the loop: the flag is clear, a signal is taken and emitted.
\* finished is connected to play_next and ready_to_exit to _ready_to_exit;
\* the other signals have no slot inside the engine.

\* Signal.emit (fuocore.dispatch): every slot is called in turn and a slot's
\* exception reaches the caller of emit, here run(), which has no handler
emit(raised) == IF raised THEN "crashed" ELSE run
Emit(signal) ==
    CASE signal = "finished" ->
            \E g \in get_next_song :
                /\ PlayGot(g, "emit_finished")
                /\ run' = emit(g.kind \in {"raise", "int"})
                /\ UNCHANGED ready_to_exit_flag
      [] signal = "ready_to_exit" ->
            /\ ready_to_exit_flag' = TRUE
            /\ last' = Last("emit_ready_to_exit", None, <<>>, FALSE, <<>>, "None", None, FALSE)
            /\ UNCHANGED <<songs, current_song, handler, stdout_cap_thread, run>>
      [] OTHER ->
            /\ last' = Last("emit_" \o signal, None, <<>>, FALSE, <<>>, "None", None, FALSE)
            /\ UNCHANGED <<songs, current_song, handler, stdout_cap_thread, run,
                           ready_to_exit_flag>>

RunEmit ==
    /\ run = "running"
    /\ ~ready_to_exit_flag
    /\ signal_queue # <<>>
    /\ signal_queue' = Tail(signal_queue)
    /\ Emit(Head(signal_queue))
    /\ Silent
    /\ UNCHANGED <<playback_mode, playlist_vars, conc_vars>>

RunBreak ==
    /\ run = "running"
    /\ ready_to_exit_flag
    /\ run' = "exited"
    /\ last' = Last("run_break", None, <<>>, FALSE, <<>>, "None", None, FALSE)
    /\ UNCHANGED <<songs, current_song, playback_mode, state, last_state, position,
                   duration, handler, stdout_cap_thread, signal_queue,
                   ready_to_exit_flag, playlist_vars, conc_vars>>

Next ==
    \/ ReadLine
    \/ play_song
    \/ play_songs
    \/ play
    \/ pause
    \/ toggle
    \/ stop
    \/ shutdown
    \/ play_next
    \/ play_last
    \/ AddSong
    \/ RemoveSong
    \/ RunEmit
    \/ RunBreak

Spec == Init /\ [][Next]_vars


\* ======================================================================
\* Playlist
\* ======================================================================
PlTracks == 1..MaxPlaylist
PlSongLists == {s \in UNION {[1..n -> PlTracks] : n \in 0..MaxPlaylist} : NoDup(s)}

\* s[i] for a Python index i: negative indices count from the end
PyValid(s, i) == -Len(s) <= i /\ i < Len(s)
PyGet(s, i) == IF i >= 0 THEN s[i + 1] ELSE s[Len(s) + i + 1]

\* The current_song property read with cursor idx on list s: it raises
\* IndexError when the cursor is set and not an index of s.
GetterRaises(s, idx) == idx # NoIndex /\ ~PyValid(s, idx[1])
current_song_of(s, idx) == IF idx = NoIndex THEN None ELSE PyGet(s, idx[1])

\* rounds: <<i, n>> when the last n calls were all next() and the first of
\* them found the cursor on index i; <<>> otherwise.
Rounds(op) ==
    IF op # "next" \/ current_index = NoIndex THEN <<>>
    ELSE IF pl_last.op = "next" /\ pl_last.rounds # <<>> /\ pl_last.exc = ""
            /\ pl_last.rounds[2] < Len(pl_songs)
         THEN <<pl_last.rounds[1], pl_last.rounds[2] + 1>>
         ELSE <<current_index[1], 1>>

PlayerIdle == UNCHANGED <<player_vars, conc_vars>>

\* current_song setter
SetCurrent ==
    \E song \in PlTracks :
        LET present == Contains(pl_songs, song)
            index == IF present THEN Index(pl_songs, song)
                     ELSE IF current_index = NoIndex THEN 0
                     ELSE current_index[1] + 1
            inserted == IF present THEN pl_songs ELSE Insert(pl_songs, index, song)
        IN  /\ pl_songs' = inserted
            /\ IF GetterRaises(inserted, current_index)
               THEN \* line 73 reads self.current_song with the old cursor
                    /\ pl_last' = PlLast("set_current", song, <<>>, "IndexError", <<>>)
                    /\ UNCHANGED <<current_index, last_song>>
               ELSE /\ last_song' = current_song_of(inserted, current_index)
                    /\ current_index' = <<index>>
                    /\ pl_last' = PlLast("set_current", song, <<"song_changed">>, "", <<>>)
            /\ UNCHANGED <<last_index, pl_playback_mode>>
            /\ PlayerIdle

\* playback_mode setter
SetPlaybackMode ==
    \E mode \in PlaybackMode :
        /\ pl_playback_mode' = mode
        /\ pl_last' = PlLast("set_playback_mode", mode, <<"playback_mode_changed">>, "", <<>>)
        /\ UNCHANGED <<pl_songs, current_index, last_index, last_song>>
        /\ PlayerIdle

\* The cursor after the mode-dependent part of next(), or "TypeError" with
\* the cursor left at None (None += 1 in the sequential branch).
next_cursor(i, n, mode) ==
    CASE mode \in {"one_loop", "loop"} ->
            {[index |-> <<(IF i = n - 1 THEN 0 ELSE i) + 1>>, exc |-> ""]}
      [] mode = "sequential" ->
            IF i = n - 1 THEN {[index |-> NoIndex, exc |-> "TypeError"]}
            ELSE {[index |-> <<i + 1>>, exc |-> ""]}
      [] OTHER -> {[index |-> <<j>>, exc |-> ""] : j \in 0..(n - 1)}

\* Playlist.next
PlNext ==
    /\ IF pl_songs = <<>>
       THEN /\ pl_last' = PlLast("next", None, <<>>, "", Rounds("next"))
            /\ UNCHANGED current_index
       ELSE IF GetterRaises(pl_songs, current_index)
       THEN /\ pl_last' = PlLast("next", None, <<>>, "IndexError", Rounds("next"))
            /\ UNCHANGED current_index
       ELSE IF current_index = NoIndex
       THEN /\ current_index' = <<0>>
            /\ pl_last' = PlLast("next", None, <<"song_changed">>, "", Rounds("next"))
       ELSE \E r \in next_cursor(current_index[1], Len(pl_songs), pl_playback_mode) :
                /\ current_index' = r.index
                /\ pl_last' = PlLast("next", None,
                                     IF r.exc = "" THEN <<"song_changed">> ELSE <<>>,
                                     r.exc, Rounds("next"))
    /\ UNCHANGED <<pl_songs, last_index, last_song, pl_playback_mode>>
    /\ PlayerIdle

\* Playlist.previous
PlPrevious ==
    /\ IF current_index = NoIndex THEN TRUE ELSE current_index[1] > -MaxBack
    /\ IF pl_songs = <<>>
       THEN /\ pl_last' = PlLast("previous", None, <<>>, "", <<>>)
            /\ UNCHANGED current_index
       ELSE IF last_index # NoIndex
       THEN /\ current_index' = last_index
            /\ pl_last' = PlLast("previous", None, <<"song_changed">>, "", <<>>)
       ELSE IF current_index = NoIndex
       THEN /\ current_index' = <<0>>
            /\ pl_last' = PlLast("previous", None, <<"song_changed">>, "", <<>>)
       ELSE /\ \E j \in (IF pl_playback_mode = "random"
                         THEN 0..(Len(pl_songs) - 1)
                         ELSE {current_index[1] - 1}) :
                    current_index' = <<j>>
            /\ pl_last' = PlLast("previous", None, <<"song_changed">>, "", <<>>)
    /\ UNCHANGED <<pl_songs, last_index, last_song, pl_playback_mode>>
    /\ PlayerIdle

PlaylistInit ==
    /\ PlayerFields
    /\ playback_mode = "loop"
    /\ \E list \in PlSongLists, mode \in PlaybackMode : PlaylistFields(list, mode)
    /\ HandleFields(0)

PlaylistNext ==
    \/ SetCurrent
    \/ SetPlaybackMode
    \/ PlNext
    \/ PlPrevious

PlaylistSpec == PlaylistInit /\ [][PlaylistNext]_vars

\* ======================================================================
\* The subprocess handle under concurrent calls: the caller's thread ("main")
\* and the thread in run() each execute commands statement by statement.
\* Songs are left out: play_next always has a next song to play.
\* ======================================================================
Others == UNCHANGED <<player_vars, playlist_vars>>

\* The handler property: the process self.handler yields, spawning process
\* nproc + 1 and its capture thread when _handler is None.
H == IF c_handler = 0 THEN nproc + 1 ELSE c_handler
Born == IF c_handler = 0 THEN [procs EXCEPT ![H].st = "alive"] ELSE procs
\* The statement reads self.handler and leaves the processes as ps.
Handler(ps) ==
    /\ c_handler' = H
    /\ c_thread' = IF c_handler = 0 THEN H ELSE c_thread
    /\ nproc' = IF c_handler = 0 THEN nproc + 1 ELSE nproc
    /\ caps' = IF c_handler = 0 THEN [caps EXCEPT ![H] = "loop"] ELSE caps
    /\ procs' = ps
NoHandler == UNCHANGED <<c_handler, c_thread, nproc, caps, procs>>

Go(T, to) == pc' = [pc EXCEPT ![T] = to]
\* an exception leaves the command: run() dies with it, the caller gets it
Raised(T) == IF T = "run" THEN "crashed" ELSE "idle"
\* the statement after destroy() in the command T is running
After(T) ==
    CASE cmd[T] = "stop" -> "idle"
      [] cmd[T] = "shutdown" -> "s_put"
      [] OTHER -> "p_load"

\* destroy(), line 348: if self._handler is not None
DCheck(T) ==
    /\ pc[T] = "d_check"
    /\ Go(T, IF c_handler = 0 THEN After(T) ELSE "d_write")
    /\ NoHandler
    /\ UNCHANGED <<rd, cmd, target, c_queue, c_flag, budget>>
    /\ Others

\* lines 350-351: self.handler.stdin.write(b'q\n'); flush(). ValueError (the
\* pipe end is closed) is caught; a pipe whose process is gone breaks.
DWrite(T) ==
    /\ pc[T] = "d_write"
    /\ IF Born[H].stdin_closed
       THEN Handler(Born) /\ Go(T, "d_join")
       ELSE IF Born[H].st = "exited"
       THEN Handler(Born) /\ Go(T, Raised(T))
       ELSE Handler([Born EXCEPT ![H].quit = TRUE]) /\ Go(T, "d_close_in")
    /\ UNCHANGED <<rd, cmd, target, c_queue, c_flag, budget>>
    /\ Others

\* line 352: self.handler.stdin.close()
DCloseIn(T) ==
    /\ pc[T] = "d_close_in"
    /\ Handler([Born EXCEPT ![H].stdin_closed = TRUE])
    /\ Go(T, "d_close_out")
    /\ UNCHANGED <<rd, cmd, target, c_queue, c_flag, budget>>
    /\ Others

\* lines 353-354: self.handler.stdout.close(); self.handler.stderr.close()
DCloseOut(T) ==
    /\ pc[T] = "d_close_out"
    /\ Handler([Born EXCEPT ![H].stdout_closed = TRUE])
    /\ Go(T, "d_join")
    /\ UNCHANGED <<rd, cmd, target, c_queue, c_flag, budget>>
    /\ Others

\* line 357: self._stdout_cap_thread.join(): the attribute is read (None has
\* no join), then the call blocks until that thread has ended
DJoin(T) ==
    /\ pc[T] = "d_join"
    /\ IF c_thread = 0
       THEN Go(T, Raised(T)) /\ UNCHANGED target
       ELSE Go(T, "d_joining") /\ target' = [target EXCEPT ![T] = c_thread]
    /\ NoHandler
    /\ UNCHANGED <<rd, cmd, c_queue, c_flag, budget>>
    /\ Others
DJoining(T) ==
    /\ pc[T] = "d_joining"
    /\ caps[target[T]] \in {"done", "died"}
    /\ Go(T, "d_clear")
    /\ NoHandler
    /\ UNCHANGED <<rd, cmd, target, c_queue, c_flag, budget>>
    /\ Others

\* line 358: self._stdout_cap_thread = None
DClear(T) ==
    /\ pc[T] = "d_clear"
    /\ c_thread' = 0
    /\ Go(T, "d_wait")
    /\ UNCHANGED <<c_handler, nproc, caps, procs>>
    /\ UNCHANGED <<rd, cmd, target, c_queue, c_flag, budget>>
    /\ Others

\* line 359: self.handler.wait(): the property is read, then the call blocks
\* until that process has exited
DWait(T) ==
    /\ pc[T] = "d_wait"
    /\ Handler(Born)
    /\ target' = [target EXCEPT ![T] = H]
    /\ Go(T, "d_waiting")
    /\ UNCHANGED <<rd, cmd, c_queue, c_flag, budget>>
    /\ Others
DWaiting(T) ==
    /\ pc[T] = "d_waiting"
    /\ procs[target[T]].st = "exited"
    /\ Go(T, "d_kill")
    /\ NoHandler
    /\ UNCHANGED <<rd, cmd, target, c_queue, c_flag, budget>>
    /\ Others

\* line 360: self.handler.kill()
DKill(T) ==
    /\ pc[T] = "d_kill"
    /\ Handler([Born EXCEPT ![H].st = "exited"])
    /\ Go(T, "d_none")
    /\ UNCHANGED <<rd, cmd, target, c_queue, c_flag, budget>>
    /\ Others

\* lines 361-362: self._handler = None; return True
DNone(T) ==
    /\ pc[T] = "d_none"
    /\ c_handler' = 0
    /\ Go(T, After(T))
    /\ UNCHANGED <<c_thread, nproc, caps, procs>>
    /\ UNCHANGED <<rd, cmd, target, c_queue, c_flag, budget>>
    /\ Others

\* _play, lines 425-427: 'L url' is written to self.handler.stdin
PLoad(T) ==
    /\ pc[T] = "p_load"
    /\ IF Born[H].stdin_closed \/ Born[H].st = "exited"
       THEN Handler(Born) /\ Go(T, Raised(T))
       ELSE Handler([Born EXCEPT ![H].loaded = TRUE]) /\ Go(T, "idle")
    /\ UNCHANGED <<rd, cmd, target, c_queue, c_flag, budget>>
    /\ Others

\* shutdown, line 343: self._signal_queue.put(self.ready_to_exit)
SPut(T) ==
    /\ pc[T] = "s_put"
    /\ c_queue' = Append(c_queue, "ready_to_exit")
    /\ Go(T, "idle")
    /\ NoHandler
    /\ UNCHANGED <<rd, cmd, target, c_flag, budget>>
    /\ Others

\* the caller begins stop(), shutdown() or play_song(song)
MainCall ==
    /\ pc["main"] = "idle"
    /\ budget > 0
    /\ \E c \in {"stop", "shutdown", "play_song"} : cmd' = [cmd EXCEPT !["main"] = c]
    /\ Go("main", "d_check")
    /\ budget' = budget - 1
    /\ NoHandler
    /\ UNCHANGED <<rd, target, c_queue, c_flag>>
    /\ Others

\* run(): the flag is clear and a signal is taken; finished calls play_next,
\* ready_to_exit sets the flag
RunTake ==
    /\ pc["run"] = "idle"
    /\ ~c_flag
    /\ c_queue # <<>>
    /\ c_queue' = Tail(c_queue)
    /\ IF Head(c_queue) = "finished"
       THEN /\ cmd' = [cmd EXCEPT !["run"] = "play_next"]
            /\ Go("run", "d_check")
            /\ UNCHANGED c_flag
       ELSE /\ c_flag' = TRUE
            /\ UNCHANGED <<cmd, pc>>
    /\ NoHandler
    /\ UNCHANGED <<rd, target, budget>>
    /\ Others
RunLeave ==
    /\ pc["run"] = "idle"
    /\ c_flag
    /\ Go("run", "exited")
    /\ NoHandler
    /\ UNCHANGED <<rd, cmd, target, c_queue, c_flag, budget>>
    /\ Others

\* _capture_stdout, line 300: self._handler.stdout.readline() is entered.
\* None has no stdout (the thread dies); a closed stdout raises ValueError
\* (the loop is left).
CapBegin(t) ==
    /\ caps[t] = "loop"
    /\ IF c_handler = 0
       THEN caps' = [caps EXCEPT ![t] = "died"] /\ UNCHANGED rd
       ELSE IF procs[c_handler].stdout_closed
       THEN caps' = [caps EXCEPT ![t] = "done"] /\ UNCHANGED rd
       ELSE caps' = [caps EXCEPT ![t] = "reading"] /\ rd' = [rd EXCEPT ![t] = c_handler]
    /\ UNCHANGED <<c_handler, c_thread, nproc, procs, pc, cmd, target, c_queue,
                   c_flag, budget>>
    /\ Others
\* readline() returns: '@P 0' puts finished and leaves the loop; a closed or
\* ended stream sends the thread round the loop again
CapRead(t) ==
    /\ caps[t] = "reading"
    /\ IF procs[rd[t]].stdout_closed
       THEN caps' = [caps EXCEPT ![t] = "loop"] /\ UNCHANGED <<procs, c_queue>>
       ELSE IF procs[rd[t]].out
       THEN /\ caps' = [caps EXCEPT ![t] = "done"]
            /\ procs' = [procs EXCEPT ![rd[t]].out = FALSE]
            /\ c_queue' = Append(c_queue, "finished")
       ELSE /\ procs[rd[t]].st = "exited"
            /\ caps' = [caps EXCEPT ![t] = "loop"]
            /\ UNCHANGED <<procs, c_queue>>
    /\ UNCHANGED <<c_handler, c_thread, nproc, rd, pc, cmd, target, c_flag, budget>>
    /\ Others

\* mpg123: a loaded track plays to its end ('@P 0'); 'q' ends the process
ProcFinish(p) ==
    /\ procs[p].st = "alive"
    /\ procs[p].loaded
    /\ ~procs[p].quit
    /\ budget > 0
    /\ procs' = [procs EXCEPT ![p].loaded = FALSE, ![p].out = TRUE]
    /\ budget' = budget - 1
    /\ UNCHANGED <<c_handler, c_thread, nproc, caps, rd, pc, cmd, target, c_queue, c_flag>>
    /\ Others
ProcExit(p) ==
    /\ procs[p].st = "alive"
    /\ procs[p].quit
    /\ procs' = [procs EXCEPT ![p].st = "exited"]
    /\ UNCHANGED <<c_handler, c_thread, nproc, caps, rd, pc, cmd, target, c_queue,
                   c_flag, budget>>
    /\ Others

ThreadStep(T) ==
    \/ DCheck(T)
    \/ DWrite(T)
    \/ DCloseIn(T)
    \/ DCloseOut(T)
    \/ DJoin(T)
    \/ DJoining(T)
    \/ DClear(T)
    \/ DWait(T)
    \/ DWaiting(T)
    \/ DKill(T)
    \/ DNone(T)
    \/ PLoad(T)
    \/ SPut(T)
CapStep(t) == CapBegin(t) \/ CapRead(t)

ConcInit ==
    /\ PlayerFields
    /\ playback_mode = "loop"
    /\ PlaylistFields(<<>>, "loop")
    /\ HandleFields(MaxCmds)

ConcNext ==
    \/ MainCall
    \/ RunTake
    \/ RunLeave
    \/ \E T \in Threads : ThreadStep(T)
    \/ \E t \in Pids : CapStep(t)
    \/ \E p \in Pids : ProcFinish(p)
    \/ \E p \in Pids : ProcExit(p)

ConcSpec == ConcInit /\ [][ConcNext]_vars

\* A step of anything but the caller beginning another command
Progress ==
    \/ RunTake
    \/ RunLeave
    \/ \E T \in Threads : ThreadStep(T)
    \/ \E t \in Pids : CapStep(t)
    \/ \E p \in Pids : ProcFinish(p)
    \/ \E p \in Pids : ProcExit(p)

\* ======================================================================
\* Claims checked under Spec
\* ======================================================================

\* The state a status line stands for in the protocol: '@F' with its four
\* numeric fields is playing, '@P 0' stopped, '@P 1' paused, any other '@P'
\* playing; "" for a line that carries no state.
LineState(line) ==
    CASE line[1] = "@F" /\ Len(line) = 5 /\ \A i \in 2..5 : line[i] \in Numeric -> "playing"
      [] line[1] = "@P" /\ Len(line) >= 2 /\ line[2] = "0" -> "stopped"
      [] line[1] = "@P" /\ Len(line) >= 2 /\ line[2] = "1" -> "paused"
      [] line[1] = "@P" -> "playing"
      [] OTHER -> ""
Count(s, x) == Cardinality({i \in 1..Len(s) : s[i] = x})

\* C1: a parsed status line posts state_changed exactly once when the state
\* it maps to differs from the state committed before it, and not at all
\* when it maps to the same state; the mapped state is the one committed.
C1_StateChangedIffDifferent ==
    (last.op = "readline" /\ LineState(last.arg) # "") =>
        /\ state = LineState(last.arg)
        /\ Count(last.posted, "state_changed")
             = (IF LineState(last.arg) # last.pre_state THEN 1 ELSE 0)
\* a second '@P 1' in a row: the state was already paused and nothing is posted
C1_Witness ==
    /\ last.op = "readline"
    /\ last.arg = <<"@P", "1">>
    /\ last.pre_state = "paused"
    /\ state = "paused"
    /\ last.posted = <<>>

\* C2: no step other than the capture thread's handling of a line changes
\* the state, and a line that changes it is an '@F' or an '@P' line.
C2_OnlyStatusLinesChangeState ==
    /\ last.op # "readline" => state = last.pre_state
    /\ (last.op = "readline" /\ state # last.pre_state) => last.arg[1] \in {"@F", "@P"}
\* pause() accepted while playing: 'p' is written and the state is still playing
C2_Witness ==
    /\ last.op = "pause"
    /\ last.ret = "True"
    /\ last.writes = <<"p">>
    /\ state = "playing"

\* C3: play() writes 'p' exactly when the state is paused and pause() exactly
\* when it is playing; otherwise the call writes nothing, spawns nothing and
\* returns False.
C3_ResumePauseGuard ==
    /\ last.op = "play" =>
          IF last.pre_state = "paused"
          THEN last.writes = <<"p">> /\ last.ret = "True"
          ELSE last.writes = <<>> /\ ~last.spawned /\ last.ret = "False"
    /\ last.op = "pause" =>
          IF last.pre_state = "playing"
          THEN last.writes = <<"p">> /\ last.ret = "True"
          ELSE last.writes = <<>> /\ ~last.spawned /\ last.ret = "False"
\* play() called in state stopped while a subprocess is up: nothing happens
C3_Witness ==
    /\ last.op = "play"
    /\ last.pre_state = "stopped"
    /\ handler = "Popen"
    /\ last.writes = <<>>
    /\ last.ret = "False"


\* C4: once shutdown() has put ready_to_exit on the queue, run() stays alive
\* until it has emitted it: it has left its loop only by the exit flag that
\* the ready_to_exit slot sets, never with ready_to_exit still unhandled.
C4_ReadyToExitLast ==
    Contains(signal_queue, "ready_to_exit") =>
        \/ run = "running"
        \/ run = "exited" /\ ready_to_exit_flag

\* Position of the current song in the list a next-song step started from
PrePos == Index(last.pre_songs, last.pre_current)
PreLen == Len(last.pre_songs)
FromListedSong ==
    /\ last.pre_songs # <<>>
    /\ Contains(last.pre_songs, last.pre_current)

\* C6: when run() emits finished, the slot loads the track the playback mode
\* selects after the current one: in loop mode the one at (i + 1) mod len, in
\* one_loop the current one, in sequential the following one unless the
\* current one is the last, in random any track of the list.
C6_ContinuousPlayback ==
    (last.op = "emit_finished" /\ FromListedSong) =>
        /\ ~last.exc
        /\ last.loaded # None => Contains(last.writes, "L")
        /\ CASE playback_mode = "loop" ->
                    last.loaded = last.pre_songs[((PrePos + 1) % PreLen) + 1]
             [] playback_mode = "one_loop" -> last.loaded = last.pre_current
             [] playback_mode = "sequential" ->
                    last.loaded = IF PrePos < PreLen - 1
                                  THEN last.pre_songs[PrePos + 2] ELSE None
             [] OTHER -> last.loaded \in Range(last.pre_songs)

\* C7: in sequential mode play_next with the current track last in the list
\* loads nothing, starts nothing and posts playlist_finished; with an earlier
\* current track it loads the following one and posts no playlist_finished.
C7_SequentialPlayNext ==
    (playback_mode = "sequential" /\ last.op \in {"play_next", "emit_finished"}
       /\ FromListedSong) =>
        IF PrePos = PreLen - 1
        THEN /\ last.loaded = None
             /\ last.writes = <<>>
             /\ ~last.spawned
             /\ Contains(last.posted, "playlist_finished")
        ELSE /\ last.loaded = last.pre_songs[PrePos + 2]
             /\ Contains(last.writes, "L")
             /\ ~Contains(last.posted, "playlist_finished")

\* ======================================================================
\* Claims checked under ConcSpec
\* ======================================================================
InDestroy(T) ==
    pc[T] \in {"d_check", "d_write", "d_close_in", "d_close_out", "d_join",
               "d_joining", "d_clear", "d_wait", "d_waiting", "d_kill", "d_none"}
\* a loaded track is still playing, so its '@P 0' is still to come
Playing == \E p \in Pids : procs[p].st = "alive" /\ procs[p].loaded /\ ~procs[p].quit

\* C5: destroy() never hangs: while a thread is inside destroy(), entered
\* from the caller's stop(), shutdown() or play_song() or from play_next in
\* run(), some thread, capture thread or process can still take a step or a
\* track is still playing, without the caller having to call again.
C5_TeardownNeverStuck ==
    \A T \in Threads : InDestroy(T) => (Playing \/ ENABLED Progress)

\* ======================================================================
\* Claims checked under PlaylistSpec
\* ======================================================================
OnTrack(i) == i # NoIndex /\ i[1] >= 0 /\ i[1] < Len(pl_songs)

\* C8: in loop mode len consecutive next() calls bring the cursor back to
\* the index they started from, and one next() from the last index lands on
\* index 0.
C8_LoopCycle ==
    (pl_playback_mode = "loop" /\ pl_last.op = "next" /\ OnTrack(pl_last.pre_index)) =>
        /\ pl_last.pre_index[1] = Len(pl_songs) - 1 => current_index = <<0>>
        /\ (pl_last.rounds # <<>> /\ pl_last.rounds[2] = Len(pl_songs))
              => current_index = <<pl_last.rounds[1]>>

\* C9: in sequential mode next() from the last index returns normally with
\* the cursor None and song_changed emitted; from an earlier index it moves
\* the cursor up by one and emits song_changed.
C9_SequentialNext ==
    (pl_playback_mode = "sequential" /\ pl_last.op = "next" /\ OnTrack(pl_last.pre_index)) =>
        /\ pl_last.exc = ""
        /\ pl_last.emitted = <<"song_changed">>
        /\ current_index = IF pl_last.pre_index[1] = Len(pl_songs) - 1
                           THEN NoIndex
                           ELSE <<pl_last.pre_index[1] + 1>>

\* C10: the list stays free of duplicates; the current_song setter leaves the
\* list alone and moves the cursor to t's slot when t is present, inserts t
\* right after the cursor (at 0 without a cursor) and moves the cursor there
\* when t is absent; afterwards current_song is t and song_changed was emitted.
C10_SetCurrent ==
    /\ NoDup(pl_songs)
    /\ pl_last.op = "set_current" =>
         LET t == pl_last.arg
             pre == pl_last.pre_songs
             k == IF Contains(pre, t) THEN Index(pre, t)
                  ELSE IF pl_last.pre_index = NoIndex THEN 0
                  ELSE pl_last.pre_index[1] + 1
         IN  /\ pl_last.exc = ""
             /\ pl_last.emitted = <<"song_changed">>
             /\ Contains(pre, t) => pl_songs = pre
             /\ ~Contains(pre, t) =>
                    /\ k \in 0..Len(pre)
                    /\ pl_songs = SubSeq(pre, 1, k) \o <<t>> \o SubSeq(pre, k + 1, Len(pre))
             /\ current_index = <<k>>
             /\ OnTrack(current_index)
             /\ current_song_of(pl_songs, current_index) = t

\* C11: whatever calls were made, in any playback mode, the cursor is None
\* or an index of the list: 0 <= current_index < len(songs).
C11_CursorValid ==
    IF current_index = NoIndex THEN TRUE
    ELSE 0 <= current_index[1] /\ current_index[1] < Len(pl_songs)

\* C12: when the current_song setter moves the cursor from index i to another
\* slot, last_index is i afterwards; and previous() with a remembered
\* last_index puts the cursor on it and emits song_changed.
C12_GoBack ==
    /\ (pl_last.op = "set_current" /\ pl_last.exc = ""
          /\ pl_last.pre_index # NoIndex /\ current_index # pl_last.pre_index)
        => last_index = pl_last.pre_index
    /\ (pl_last.op = "previous" /\ pl_songs # <<>> /\ last_index # NoIndex)
        => (current_index = last_index /\ pl_last.emitted = <<"song_changed">>)

\* ======================================================================
\* Further claims checked under Spec
\* ======================================================================

\* C13: stop() on a live subprocess leads to state stopped. When stop() has
\* returned its capture thread is joined and, with the queue empty, run()
\* has nothing to deliver: no step is left that could still set the state,
\* so the state is stopped by then.
C13_StoppedAfterStop ==
    (last.op = "stop" /\ last.writes = <<"q">> /\ signal_queue = <<>>)
        => state = "stopped"

\* C14: a step that parses '@F framecount frame_left seconds seconds_left'
\* sets position to seconds, sets duration to seconds_left when framecount
\* is 0 and leaves it alone otherwise, sets the state to playing and puts
\* exactly one position_changed on the queue.
C14_FrameLine ==
    [][(last'.op = "readline" /\ last'.arg[1] = "@F"
          /\ LineState(last'.arg) = "playing") =>
        /\ position' = Num(last'.arg[4])
        /\ duration' = IF Num(last'.arg[2]) = 0 THEN Num(last'.arg[5]) ELSE duration
        /\ state' = "playing"
        /\ Count(last'.posted, "position_changed") = 1
        /\ signal_queue' = signal_queue \o last'.posted]_vars
\* an '@F' line of a later frame was parsed before any frame 0: the position
\* is its seconds and the duration still 0
C14_Witness ==
    /\ last.op = "readline"
    /\ last.arg = <<"@F", "1", "0", "1", "2">>
    /\ position = 1
    /\ duration = 0
    /\ state = "playing"

\* The steps taken by the thread in run(); "readline" is the capture
\* thread's step and every other op is a call on the caller's thread.
RunOps == {"emit_" \o s : s \in Signals} \cup {"run_break"}

\* C15: the capture thread only puts signals on the queue: its step runs no
\* slot (the song list, the current song, the handle and the exit flag are
\* as before), and every step that writes _state, _position or _duration is
\* a step of the thread in run().
C15_SingleWriterThread ==
    [][/\ last'.op = "readline" =>
             UNCHANGED <<songs, current_song, handler, ready_to_exit_flag>>
       /\ (<<state, position, duration>>' # <<state, position, duration>>) =>
             last'.op \in RunOps]_vars

\* C17: a line that is no status line ('@E', an unknown flag, an '@F' line
\* that does not carry four numeric fields) is passed over: the capture
\* thread is still in its loop afterwards, and state, position, duration
\* and the queue are as before.
C17_BadLineIgnored ==
    [][(last'.op = "readline" /\ LineState(last'.arg) = "") =>
        /\ stdout_cap_thread' = "running"
        /\ UNCHANGED <<state, position, duration, signal_queue>>]_vars

\* C18: the step that parses '@P 0' sets the state to stopped and position
\* and duration to 0, puts finished on the queue once and as the last thing
\* it puts (a state_changed of the same line comes before it) and ends the
\* loop; a capture thread whose loop has ended parses no further line, and
\* only a newly spawned subprocess has a running capture thread again.
C18_StoppedLine ==
    [][/\ (last'.op = "readline" /\ last'.arg = <<"@P", "0">>) =>
            /\ state' = "stopped"
            /\ position' = 0
            /\ duration' = 0
            /\ Count(last'.posted, "finished") = 1
            /\ last'.posted[Len(last'.posted)] = "finished"
            /\ signal_queue' = signal_queue \o last'.posted
            /\ stdout_cap_thread' = "finished"
       /\ stdout_cap_thread = "finished" =>
            /\ last'.op # "readline"
            /\ stdout_cap_thread' = "running" => last'.spawned]_vars
\* '@P 0' read while playing: state_changed, then finished, and the loop ends
C18_Witness ==
    /\ last.op = "readline"
    /\ last.arg = <<"@P", "0">>
    /\ last.pre_state = "playing"
    /\ last.posted = <<"state_changed", "finished">>
    /\ state = "stopped"
    /\ stdout_cap_thread = "finished"

\* C20: the song list holds no identifier twice, and the current song is
\* None or a member of the list (so that list.index finds it).
C20_SongListInvariant ==
    /\ NoDup(songs)
    /\ current_song = None \/ Contains(songs, current_song)

\* ======================================================================
\* Further claims checked under ConcSpec
\* ======================================================================
LiveProcs == {p \in Pids : procs[p].st = "alive"}
LiveCaps == {t \in Pids : caps[t] \in {"loop", "reading"}}

\* C16: under every interleaving of the caller's commands with play_next in
\* run(), at most one subprocess is alive and at most one capture thread is
\* running.
C16_OneSubprocess ==
    /\ Cardinality(LiveProcs) <= 1
    /\ Cardinality(LiveCaps) <= 1

\* C19: when the caller's last command was shutdown(), it has returned and
\* run() has left its loop, the handle is cleared, no subprocess is alive
\* and no capture thread is running, whatever was queued ahead of
\* ready_to_exit.
C19_NothingLeftAlive ==
    (cmd["main"] = "shutdown" /\ pc["main"] = "idle" /\ pc["run"] = "exited") =>
        /\ c_handler = 0
        /\ LiveProcs = {}
        /\ LiveCaps = {}

====
